---- MODULE Spec2Model ----
(***************************************************************************)
(* Model of pype.misc.CircularBuffer (src/pype/misc.py): a one-dimensional *)
(* buffer of Cap cells that is circular along its only axis.               *)
(*                                                                         *)
(* Spec     : the public operations called one after the other, each call  *)
(*            one atomic step (a single-threaded client).                  *)
(* Threaded : a writer thread in write() and a second thread in wait(),    *)
(*            interleaved statement by statement; FairThreaded adds that   *)
(*            a thread inside a call keeps being scheduled.                *)
(***************************************************************************)
EXTENDS Integers, Sequences, FiniteSets, TLC

\* ------------------------------------------------------------------ bounds
\* self._data.shape[self._axis], the capacity C chosen at construction
Cap == 2
\* longest block of samples handed to one write call
MaxLen == 3
\* cap on the (unbounded) sample counters
MaxPos == 5
\* samples written are 1..MaxVal; 0 is the zero-initialised cell
MaxVal == 2

VARIABLES
    data,           \* self._data, physical index 0..Cap-1 -> sample
    nsWritten,      \* self._nsWritten
    nsRead,         \* self._nsRead
    updatedEvent,   \* self._updatedEvent (threading.Event flag)
    allowOverflow,  \* self._allowOverflow
    last,           \* the most recent call: its arguments and its outcome
    lastWrite,      \* history: the block the most recent write stored, and
                    \* where; None once the write cursor is rewound
    lastEnd,        \* history: where the most recent advancing read ended;
                    \* None once a cursor is rewound
    discarded,      \* history: an overflow moved the read cursor forward
                    \* since lastEnd was set
    pc,             \* Threaded: the statement each thread is at
    wloc,           \* Threaded: the writer's locals `data` and `at`
    rloc,           \* the reading thread's arguments and locals in read
    lock,           \* self._lock: the thread that holds it, or None
    written,        \* history: logical index -> the sample last written there
    waited,         \* history: a wait() call has returned
    notified        \* history: a write has completed since a wait() call
                    \* returned and no wait statement has passed since

vars == <<data, nsWritten, nsRead, updatedEvent, allowOverflow, last,
          lastWrite, lastEnd, discarded, pc, wloc, rloc, lock, written,
          waited, notified>>

\* what the single-threaded client's calls leave alone
threads == <<pc, wloc, rloc, lock, written, waited, notified>>

\* what the threads of Threaded leave alone
history == <<last, lastWrite, lastEnd, discarded>>

\* ------------------------------------------------------------ value domains
\* Python's None and an optional integer argument
None == {}
Some(v) == {v}
Val(o) == CHOOSE v \in o : TRUE

Samples == 1..MaxVal
Cells == 0..(Cap - 1)
\* the blocks a producer hands to write: n consecutive samples starting at v
ramp(v, n) == [i \in 1..n |-> ((v + i - 2) % MaxVal) + 1]
Blocks == {ramp(v, n) : v \in Samples, n \in 0..MaxLen}
\* the blocks no longer than the buffer: no cell is stored twice by one write
FittingBlocks == {b \in Blocks : Len(b) <= Cap}
AtArgs == {None} \cup {Some(v) : v \in (0 - 1)..MaxPos}
FrmArgs == {None} \cup {Some(v) : v \in (0 - 1)..MaxPos}
ToArgs == {None} \cup {Some(v) : v \in (0 - 1)..MaxPos}
CursorArgs == (0 - 1)..MaxPos

IndexErrors == {"WriteBefore0", "SkipWrite", "WriteBeforeRead",
                "ReadNegative", "ReadPastSize", "ReadPastWritten",
                "RewindPast0", "FastForward", "RewindPastSize"}

\* the record of a call; every action fills the fields it uses
NoCall == [op |-> "none", err |-> "ok", at |-> None, frm |-> None,
           to |-> None, advance |-> FALSE, start |-> 0, stop |-> 0,
           vals |-> <<>>, value |-> 0, flag |-> FALSE,
           prevEnd |-> None, prevDiscarded |-> FALSE]

\* the writer's locals outside a call
NoLocals == [block |-> <<>>, at |-> 0]

\* the reading thread's locals before its first call of read
NoRead == [frm |-> None, to |-> None, advance |-> FALSE, snapshot |-> 0,
           err |-> "ok", vals |-> <<>>]

\* the logical indices the counters can reach
Positions == 0..(MaxPos - 1)

\* --------------------------------------------------------------- helpers
\* np.arange(a, b): a, a+1, ..., b-1 (empty when b <= a)
arange(a, b) == [i \in 1..(IF b > a THEN b - a ELSE 0) |-> a + i - 1]

\* _getWindow: indices %= shape[axis]  (numpy %: result in 0..Cap-1)
getWindow(indices) == [i \in 1..Len(indices) |-> indices[i] % Cap]

\* self._data[window] = block. Where the window names a cell more than once
\* numpy does not fix which of the values is kept: any of them may be.
Assign(d, window, block) ==
    {d2 \in [Cells -> 0..MaxVal] :
        \A p \in Cells :
            IF \E j \in 1..Len(window) : window[j] = p
            THEN \E j \in 1..Len(window) : window[j] = p /\ d2[p] = block[j]
            ELSE d2[p] = d[p]}

\* a plausible slip: the cells are returned in physical order (a plain slice)
GatherPhysical(d, window) ==
    LET used == {window[j] : j \in 1..Len(window)}
        rank(p) == Cardinality({q \in used : q < p}) + 1
        cellAt(i) == CHOOSE p \in used : rank(p) = i
    IN  [i \in 1..Len(window) |->
            IF i <= Cardinality(used) THEN d[cellAt(i)] ELSE d[window[i]]]

\* self._data[window]: fancy indexing, a copy in the order of the indices
Gather(d, window) == [i \in 1..Len(window) |-> d[window[i]]]

\* a plausible slip: <= where the code has <
checkOverflowEager(nr, nw, allow) ==
    IF nr <= nw - Cap
    THEN IF allow THEN [nsRead |-> nw - Cap, raised |-> FALSE]
                  ELSE [nsRead |-> nr, raised |-> TRUE]
    ELSE [nsRead |-> nr, raised |-> FALSE]

\* _checkOverflow: the read cursor it leaves and whether BufferError is raised
checkOverflow(nr, nw, allow) ==
    IF nr < nw - Cap
    THEN IF allow THEN [nsRead |-> nw - Cap, raised |-> FALSE]
                  ELSE [nsRead |-> nr, raised |-> TRUE]
    ELSE [nsRead |-> nr, raised |-> FALSE]

\* ------------------------------------------------------------------ write
\* write, lines 159-163: the default and the negative form of `at`
resolveAt(at, nw) ==
    LET at1 == IF at = None THEN nw ELSE Val(at)
    IN  IF at1 < 0 THEN nw - at1 ELSE at1

\* a plausible slip: <= where the code has <, the read cursor itself refused
writeErrorStrict(at, nw, nr) ==
    IF at < 0 THEN "WriteBefore0"
    ELSE IF nw < at THEN "SkipWrite"
    ELSE IF at <= nr THEN "WriteBeforeRead"
    ELSE "ok"

\* write, lines 164-172: the three range checks, in order
writeError(at, nw, nr) ==
    IF at < 0 THEN "WriteBefore0"
    ELSE IF nw < at THEN "SkipWrite"
    ELSE IF at < nr THEN "WriteBeforeRead"
    ELSE "ok"

\* write(data, at), the whole call
write(block, at) ==
    LET at2  == resolveAt(at, nsWritten)
        n    == Len(block)
        err  == writeError(at2, nsWritten, nsRead)
        call == [NoCall EXCEPT !.op = "write", !.at = at,
                               !.start = at2, !.stop = at2 + n]
    IN  IF err # "ok"
        THEN /\ last' = [call EXCEPT !.err = err]
             /\ UNCHANGED <<data, nsWritten, nsRead, updatedEvent,
                            allowOverflow, lastWrite, lastEnd, discarded>>
        ELSE /\ at2 + n <= MaxPos
             /\ \E d2 \in Assign(data, getWindow(arange(at2, at2 + n)), block) :
                    data' = d2
             /\ nsWritten' = at2 + n
             /\ LET co == checkOverflow(nsRead, at2 + n, allowOverflow)
                IN  /\ nsRead' = co.nsRead
                    /\ updatedEvent' = (IF co.raised THEN updatedEvent ELSE TRUE)
                    /\ last' = [call EXCEPT !.vals = block,
                            !.err = IF co.raised THEN "BufferError" ELSE "ok"]
                    /\ discarded' = (discarded \/ co.nsRead # nsRead)
                    /\ lastWrite' = Some([at |-> at2, vals |-> block,
                                           raised |-> co.raised])
             /\ UNCHANGED <<allowOverflow, lastEnd>>

\* ------------------------------------------------------------------- read
\* read, lines 202-203: the default and the negative form of `to`
resolveTo(to, snapshot) ==
    LET to1 == IF to = None THEN snapshot ELSE Val(to)
    IN  IF to1 < 0 THEN snapshot - to1 ELSE to1

\* a plausible slip: the check of an inverted range is missing
readErrorNoOrder(frm, to, snapshot, nw) ==
    IF frm < nw - Cap THEN "ReadPastSize"
    ELSE IF snapshot < to THEN "ReadPastWritten"
    ELSE "ok"

\* a plausible slip: <= where the code has <, the oldest sample refused
readErrorTight(frm, to, snapshot, nw) ==
    IF to < frm THEN "ReadNegative"
    ELSE IF frm <= nw - Cap THEN "ReadPastSize"
    ELSE IF snapshot < to THEN "ReadPastWritten"
    ELSE "ok"

\* read, lines 205-210: the three range checks, in order
readError(frm, to, snapshot, nw) ==
    IF to < frm THEN "ReadNegative"
    ELSE IF frm < nw - Cap THEN "ReadPastSize"
    ELSE IF snapshot < to THEN "ReadPastWritten"
    ELSE "ok"

\* a plausible slip: the read cursor moves whatever `advance` says
advanceAlways(advance, to, nr) == to

\* read, lines 220-221
advanceRead(advance, to, nr) == IF advance THEN to ELSE nr

\* read(frm, to, advance), the whole call
read(frm, to, advance) ==
    LET snapshot == nsWritten
        frm2 == IF frm = None THEN nsRead ELSE Val(frm)
        to2  == resolveTo(to, snapshot)
        err  == readError(frm2, to2, snapshot, nsWritten)
        call == [NoCall EXCEPT !.op = "read", !.frm = frm, !.to = to,
                               !.advance = advance, !.start = frm2,
                               !.stop = to2, !.err = err,
                               !.prevEnd = lastEnd,
                               !.prevDiscarded = discarded]
    IN  IF err # "ok"
        THEN /\ last' = call
             /\ UNCHANGED <<data, nsWritten, nsRead, updatedEvent,
                            allowOverflow, lastWrite, lastEnd, discarded>>
        ELSE /\ nsRead' = advanceRead(advance, to2, nsRead)
             /\ last' = [call EXCEPT
                            !.vals = Gather(data, getWindow(arange(frm2, to2)))]
             /\ lastEnd' = (IF advance THEN Some(to2) ELSE lastEnd)
             /\ discarded' = (IF advance THEN FALSE ELSE discarded)
             /\ UNCHANGED <<data, nsWritten, updatedEvent, allowOverflow,
                            lastWrite>>

\* ---------------------------------------------------------------- cursors
\* a plausible slip: the read cursor is not pulled down with the write cursor
keepRead(value, nr) == nr

\* nsWritten setter, lines 56-57
clampRead(value, nr) == IF value < nr THEN value ELSE nr

\* a plausible slip: the write cursor may be moved forward
forwardError(value, nw) ==
    IF value < 0 THEN "RewindPast0" ELSE "ok"

\* nsWritten setter, lines 50-53
rewindWrittenError(value, nw) ==
    IF value < 0 THEN "RewindPast0"
    ELSE IF nw < value THEN "FastForward"
    ELSE "ok"

\* nsWritten = value
setNsWritten(value) ==
    LET err  == rewindWrittenError(value, nsWritten)
        call == [NoCall EXCEPT !.op = "setNsWritten", !.value = value,
                               !.err = err, !.prevEnd = lastEnd]
    IN  /\ last' = call
        /\ IF err # "ok"
           THEN UNCHANGED <<data, nsWritten, nsRead, updatedEvent,
                            allowOverflow, lastWrite, lastEnd, discarded>>
           ELSE /\ nsWritten' = value
                /\ nsRead' = clampRead(value, nsRead)
                /\ updatedEvent' = TRUE
                /\ lastWrite' = None
                /\ lastEnd' = None
                /\ discarded' = FALSE
                /\ UNCHANGED <<data, allowOverflow>>

\* a plausible slip: <= where the code has <, nsWritten - Cap itself refused
rewindReadErrorTight(value, nr, nw) ==
    IF value < 0 THEN "RewindPast0"
    ELSE IF nr < value THEN "FastForward"
    ELSE IF value <= nw - Cap THEN "RewindPastSize"
    ELSE "ok"

\* nsRead setter, lines 74-79
rewindReadError(value, nr, nw) ==
    IF value < 0 THEN "RewindPast0"
    ELSE IF nr < value THEN "FastForward"
    ELSE IF value < nw - Cap THEN "RewindPastSize"
    ELSE "ok"

\* nsRead = value
setNsRead(value) ==
    LET err  == rewindReadError(value, nsRead, nsWritten)
        call == [NoCall EXCEPT !.op = "setNsRead", !.value = value,
                               !.err = err, !.prevEnd = lastEnd]
    IN  /\ last' = call
        /\ IF err # "ok"
           THEN UNCHANGED <<data, nsWritten, nsRead, updatedEvent,
                            allowOverflow, lastWrite, lastEnd, discarded>>
           ELSE /\ nsRead' = value
                /\ updatedEvent' = TRUE
                /\ lastEnd' = None
                /\ discarded' = FALSE
                /\ UNCHANGED <<data, nsWritten, allowOverflow, lastWrite>>

\* the nsRead and nsAvailable properties: _checkOverflow, then the value
getCursor(name) ==
    LET co == checkOverflow(nsRead, nsWritten, allowOverflow)
    IN  /\ nsRead' = co.nsRead
        /\ discarded' = (discarded \/ co.nsRead # nsRead)
        /\ last' = [NoCall EXCEPT !.op = name,
                      !.err = IF co.raised THEN "BufferError" ELSE "ok",
                      !.value = IF co.raised THEN 0
                                ELSE IF name = "nsRead" THEN co.nsRead
                                ELSE nsWritten - co.nsRead]
        /\ UNCHANGED <<data, nsWritten, updatedEvent, allowOverflow,
                       lastWrite, lastEnd>>

getNsRead == getCursor("nsRead")

getNsAvailable == getCursor("nsAvailable")

\* ----------------------------------------------------------------- signal
\* updated(): the flag, cleared when it was set
updated ==
    /\ last' = [NoCall EXCEPT !.op = "updated", !.flag = updatedEvent]
    /\ updatedEvent' = FALSE
    /\ UNCHANGED <<data, nsWritten, nsRead, allowOverflow, lastWrite,
                   lastEnd, discarded>>

\* wait() called by the only thread: it returns when the flag is set
wait ==
    /\ updatedEvent
    /\ updatedEvent' = FALSE
    /\ last' = [NoCall EXCEPT !.op = "wait"]
    /\ UNCHANGED <<data, nsWritten, nsRead, allowOverflow, lastWrite,
                   lastEnd, discarded>>

\* ---------------------------------------------------------- specification
\* __init__, lines 102-108
Init ==
    /\ data = [p \in Cells |-> 0]
    /\ nsWritten = 0
    /\ nsRead = 0
    /\ updatedEvent = FALSE
    /\ allowOverflow \in BOOLEAN
    /\ last = NoCall
    /\ lastWrite = None
    /\ lastEnd = None
    /\ discarded = FALSE
    /\ pc = [w |-> "idle", r |-> "idle"]
    /\ wloc = NoLocals
    /\ rloc = NoRead
    /\ lock = None
    /\ written = [i \in Positions |-> 0]
    /\ waited = FALSE
    /\ notified = FALSE

\* The client is single-threaded: it makes a call, takes its outcome (the value
\* returned or the exception raised, held in `last`), and only then calls again.
Write ==
    /\ last = NoCall
    /\ UNCHANGED threads
    /\ \E block \in Blocks, at \in AtArgs : write(block, at)

Read ==
    /\ last = NoCall
    /\ UNCHANGED threads
    /\ \E frm \in FrmArgs, to \in ToArgs, advance \in BOOLEAN :
            read(frm, to, advance)

SetNsWritten ==
    /\ last = NoCall
    /\ UNCHANGED threads
    /\ \E value \in CursorArgs : setNsWritten(value)

SetNsRead ==
    /\ last = NoCall
    /\ UNCHANGED threads
    /\ \E value \in CursorArgs : setNsRead(value)

GetNsRead == last = NoCall /\ getNsRead /\ UNCHANGED threads

GetNsAvailable == last = NoCall /\ getNsAvailable /\ UNCHANGED threads

Updated == last = NoCall /\ updated /\ UNCHANGED threads

Wait == last = NoCall /\ wait /\ UNCHANGED threads

\* the caller has taken the outcome of its call
Return ==
    /\ last # NoCall
    /\ last' = NoCall
    /\ UNCHANGED <<data, nsWritten, nsRead, updatedEvent, allowOverflow,
                   lastWrite, lastEnd, discarded>>
    /\ UNCHANGED threads

Next ==
    \/ Write
    \/ Read
    \/ SetNsWritten
    \/ SetNsRead
    \/ GetNsRead
    \/ GetNsAvailable
    \/ Updated
    \/ Wait
    \/ Return

Spec == Init /\ [][Next]_vars

\* ---------------------------------------------------------------- threads
\* The writer thread, one step per statement of write.
goto(t, label) == pc' = [pc EXCEPT ![t] = label]

\* a call ends: control is back in the caller, or, inside a `with buffer:`
\* block, at the end of the block (leaving it by the exception if one is raised)
leave(t, raised) ==
    goto(t, IF lock = Some(t)
            THEN (IF raised THEN "unwind" ELSE "exit")
            ELSE "idle")

\* the writer calls write(block, at), while the counters are within MaxPos
wCall(block, at) ==
    /\ pc["w"] \in {"idle", "with"}
    /\ nsWritten + Len(block) <= MaxPos
    /\ goto("w", "w_resolve")
    /\ wloc' = [block |-> block, at |-> at]
    /\ UNCHANGED <<data, nsWritten, nsRead, updatedEvent, allowOverflow>>
    /\ UNCHANGED <<rloc, lock, written, waited, notified>>
    /\ UNCHANGED history

\* write, lines 159-168: `at` resolved and checked against the write cursor
\* (writeError with nr = 0 makes the two checks of lines 164-168 only)
wResolve ==
    /\ pc["w"] = "w_resolve"
    /\ LET at2 == resolveAt(wloc.at, nsWritten)
       IN  IF writeError(at2, nsWritten, 0) # "ok"
           THEN leave("w", TRUE) /\ wloc' = NoLocals
           ELSE /\ goto("w", "w_before")
                /\ wloc' = [wloc EXCEPT !.at = Some(at2)]
    /\ UNCHANGED <<data, nsWritten, nsRead, updatedEvent, allowOverflow>>
    /\ UNCHANGED <<rloc, lock, written, waited, notified>>
    /\ UNCHANGED history

\* write, lines 169-172: `at` checked against the read cursor
\* (writeError with nw = at makes the check of line 169 only)
wBefore ==
    /\ pc["w"] = "w_before"
    /\ IF writeError(Val(wloc.at), Val(wloc.at), nsRead) # "ok"
       THEN leave("w", TRUE) /\ wloc' = NoLocals
       ELSE goto("w", "w_store") /\ UNCHANGED wloc
    /\ UNCHANGED <<data, nsWritten, nsRead, updatedEvent, allowOverflow>>
    /\ UNCHANGED <<rloc, lock, written, waited, notified>>
    /\ UNCHANGED history

\* write, lines 175-178: the block is copied into storage
wStore ==
    /\ pc["w"] = "w_store"
    /\ LET at2 == Val(wloc.at)
           n   == Len(wloc.block)
       IN  /\ \E d2 \in Assign(data, getWindow(arange(at2, at2 + n)),
                               wloc.block) : data' = d2
           /\ written' = [i \in Positions |->
                            IF at2 <= i /\ i < at2 + n
                            THEN wloc.block[i - at2 + 1] ELSE written[i]]
    /\ goto("w", "w_advance")
    /\ UNCHANGED <<nsWritten, nsRead, updatedEvent, allowOverflow, wloc>>
    /\ UNCHANGED <<rloc, lock, waited, notified>>
    /\ UNCHANGED history

\* write, line 180: the write cursor moves to at + length
wAdvance ==
    /\ pc["w"] = "w_advance"
    /\ nsWritten' = Val(wloc.at) + Len(wloc.block)
    /\ goto("w", "w_overflow")
    /\ UNCHANGED <<data, nsRead, updatedEvent, allowOverflow, wloc>>
    /\ UNCHANGED <<rloc, lock, written, waited, notified>>
    /\ UNCHANGED history

\* write, line 182, and _checkOverflow, lines 138-145: the test, and the raise
\* that ends the call before line 183
wOverflow ==
    /\ pc["w"] = "w_overflow"
    /\ LET co == checkOverflow(nsRead, nsWritten, allowOverflow)
       IN  IF co.raised
           THEN leave("w", TRUE) /\ wloc' = NoLocals
           ELSE IF co.nsRead # nsRead
           THEN goto("w", "w_clamp") /\ UNCHANGED wloc
           ELSE goto("w", "w_set") /\ UNCHANGED wloc
    /\ UNCHANGED <<data, nsWritten, nsRead, updatedEvent, allowOverflow>>
    /\ UNCHANGED <<rloc, lock, written, waited, notified>>
    /\ UNCHANGED history

\* _checkOverflow, line 140: the read cursor is moved up
wClamp ==
    /\ pc["w"] = "w_clamp"
    /\ nsRead' = nsWritten - Cap
    /\ goto("w", "w_set")
    /\ UNCHANGED <<data, nsWritten, updatedEvent, allowOverflow, wloc>>
    /\ UNCHANGED <<rloc, lock, written, waited, notified>>
    /\ UNCHANGED history

\* write, line 183: self._updatedEvent.set(), and the call returns
wSet ==
    /\ pc["w"] = "w_set"
    /\ updatedEvent' = TRUE
    /\ notified' = waited
    /\ leave("w", FALSE)
    /\ wloc' = NoLocals
    /\ UNCHANGED <<data, nsWritten, nsRead, allowOverflow>>
    /\ UNCHANGED <<rloc, lock, written, waited>>
    /\ UNCHANGED history

\* the second thread calls wait()
rCall ==
    /\ pc["r"] = "idle"
    /\ goto("r", "r_wait")
    /\ UNCHANGED <<data, nsWritten, nsRead, updatedEvent, allowOverflow, wloc>>
    /\ UNCHANGED <<rloc, lock, written, waited, notified>>
    /\ UNCHANGED history

\* wait, line 227: self._updatedEvent.wait() returns once the flag is set
rWait ==
    /\ pc["r"] = "r_wait"
    /\ updatedEvent
    /\ notified' = FALSE
    /\ goto("r", "r_clear")
    /\ UNCHANGED <<data, nsWritten, nsRead, updatedEvent, allowOverflow, wloc>>
    /\ UNCHANGED <<rloc, lock, written, waited>>
    /\ UNCHANGED history

\* wait, line 228: self._updatedEvent.clear(), and the call returns
rClear ==
    /\ pc["r"] = "r_clear"
    /\ updatedEvent' = FALSE
    /\ waited' = TRUE
    /\ goto("r", "idle")
    /\ UNCHANGED <<data, nsWritten, nsRead, allowOverflow, wloc>>
    /\ UNCHANGED <<rloc, lock, written, notified>>
    /\ UNCHANGED history

WCall == \E block \in Blocks, at \in AtArgs : wCall(block, at)

\* the steps of a writer that is inside write
WriterRuns ==
    \/ wResolve
    \/ wBefore
    \/ wStore
    \/ wAdvance
    \/ wOverflow
    \/ wClamp
    \/ wSet

\* the steps of a thread that is inside wait
WaiterRuns ==
    \/ rWait
    \/ rClear

NextThreaded ==
    \/ WCall
    \/ WriterRuns
    \/ rCall
    \/ WaiterRuns

Threaded == Init /\ [][NextThreaded]_vars

\* The host's preemptive scheduler keeps running a thread that can take a
\* step inside a call; whether a thread makes another call is its own choice.
FairThreaded ==
    /\ Threaded
    /\ WF_vars(WriterRuns)
    /\ WF_vars(WaiterRuns)

\* ----------------------------------------------------- a thread that reads
\* The reading thread, one step per load or store of shared state in read.
\* the thread calls read(frm, to, advance)
rdCall(frm, to, advance) ==
    /\ pc["r"] \in {"idle", "with"}
    /\ goto("r", "r_snap")
    /\ rloc' = [NoRead EXCEPT !.frm = frm, !.to = to, !.advance = advance]
    /\ UNCHANGED <<data, nsWritten, nsRead, updatedEvent, allowOverflow, wloc>>
    /\ UNCHANGED <<lock, written, waited, notified>>
    /\ UNCHANGED history

\* read, line 200: nsWritten = self._nsWritten, the snapshot
rdSnap ==
    /\ pc["r"] = "r_snap"
    /\ rloc' = [rloc EXCEPT !.snapshot = nsWritten]
    /\ goto("r", "r_bounds")
    /\ UNCHANGED <<data, nsWritten, nsRead, updatedEvent, allowOverflow, wloc>>
    /\ UNCHANGED <<lock, written, waited, notified>>
    /\ UNCHANGED history

\* read, lines 201-205: frm defaults to self._nsRead, to is resolved against
\* the snapshot, and an inverted range is refused
\* (readError with snapshot = to and nw = frm makes the check of line 205 only)
rdBounds ==
    /\ pc["r"] = "r_bounds"
    /\ LET frm2 == IF rloc.frm = None THEN nsRead ELSE Val(rloc.frm)
           to2  == resolveTo(rloc.to, rloc.snapshot)
           err  == readError(frm2, to2, to2, frm2)
       IN  IF err # "ok"
           THEN /\ rloc' = [rloc EXCEPT !.err = err]
                /\ goto("r", "r_return")
           ELSE /\ rloc' = [rloc EXCEPT !.frm = Some(frm2), !.to = Some(to2)]
                /\ goto("r", "r_size")
    /\ UNCHANGED <<data, nsWritten, nsRead, updatedEvent, allowOverflow, wloc>>
    /\ UNCHANGED <<lock, written, waited, notified>>
    /\ UNCHANGED history

\* read, lines 207-210: frm against self._nsWritten, loaded again, and to
\* against the snapshot
rdSize ==
    /\ pc["r"] = "r_size"
    /\ LET err == readError(Val(rloc.frm), Val(rloc.to), rloc.snapshot,
                            nsWritten)
       IN  IF err # "ok"
           THEN /\ rloc' = [rloc EXCEPT !.err = err]
                /\ goto("r", "r_return")
           ELSE /\ UNCHANGED rloc
                /\ goto("r", "r_advance")
    /\ UNCHANGED <<data, nsWritten, nsRead, updatedEvent, allowOverflow, wloc>>
    /\ UNCHANGED <<lock, written, waited, notified>>
    /\ UNCHANGED history

\* read, lines 220-221: if advance: self._nsRead = to
rdAdvance ==
    /\ pc["r"] = "r_advance"
    /\ nsRead' = advanceRead(rloc.advance, Val(rloc.to), nsRead)
    /\ goto("r", "r_copy")
    /\ UNCHANGED <<data, nsWritten, updatedEvent, allowOverflow, wloc, rloc>>
    /\ UNCHANGED <<lock, written, waited, notified>>
    /\ UNCHANGED history

\* read, lines 212-217 and 224: the window of [frm, to), and the copy
rdCopy ==
    /\ pc["r"] = "r_copy"
    /\ rloc' = [rloc EXCEPT !.vals =
                    Gather(data, getWindow(arange(Val(rloc.frm),
                                                  Val(rloc.to))))]
    /\ goto("r", "r_return")
    /\ UNCHANGED <<data, nsWritten, nsRead, updatedEvent, allowOverflow, wloc>>
    /\ UNCHANGED <<lock, written, waited, notified>>
    /\ UNCHANGED history

\* the caller has the samples returned, or the exception raised
rdReturn ==
    /\ pc["r"] = "r_return"
    /\ leave("r", rloc.err # "ok")
    /\ rloc' = NoRead
    /\ UNCHANGED <<data, nsWritten, nsRead, updatedEvent, allowOverflow, wloc>>
    /\ UNCHANGED <<lock, written, waited, notified>>
    /\ UNCHANGED history

\* the steps of a thread that is inside read
ReaderRuns ==
    \/ rdSnap
    \/ rdBounds
    \/ rdSize
    \/ rdAdvance
    \/ rdCopy
    \/ rdReturn

\* One writer and one reader that advances, neither taking the lock. The
\* writer appends a block that fits the buffer or rewrites from index 0; the
\* reader takes what is new, or up to index 1.
WCallFitting ==
    \E block \in FittingBlocks, at \in {None, Some(0)} : wCall(block, at)

RdCallAdvancing == \E to \in {None, Some(1)} : rdCall(None, to, TRUE)

NextUnlocked ==
    \/ WCallFitting
    \/ WriterRuns
    \/ RdCallAdvancing
    \/ ReaderRuns

Unlocked == Init /\ [][NextUnlocked]_vars

\* -------------------------------------------------------- the scoped lock
\* a plausible slip: the lock is released only when the block ends normally
exitLockOnReturn(lk, raised) == IF raised THEN lk ELSE None

\* __exit__(self, *args), lines 120-121: self._lock.release(), whatever args
exitLock(lk, raised) == None

\* thread t reaches `with buffer:`
with(t) ==
    /\ pc[t] = "idle"
    /\ goto(t, "enter")
    /\ UNCHANGED <<data, nsWritten, nsRead, updatedEvent, allowOverflow, wloc>>
    /\ UNCHANGED <<rloc, lock, written, waited, notified>>
    /\ UNCHANGED history

\* __enter__, lines 117-118: self._lock.acquire() returns once the lock is
\* free, and t is inside the block
enter(t) ==
    /\ pc[t] = "enter"
    /\ lock = None
    /\ lock' = Some(t)
    /\ goto(t, "with")
    /\ UNCHANGED <<data, nsWritten, nsRead, updatedEvent, allowOverflow, wloc>>
    /\ UNCHANGED <<rloc, written, waited, notified>>
    /\ UNCHANGED history

\* __exit__, lines 120-121: the block ends, by its last statement or by the
\* exception raised inside it
exit(t) ==
    /\ pc[t] \in {"exit", "unwind"}
    /\ lock' = exitLock(lock, pc[t] = "unwind")
    /\ goto(t, "idle")
    /\ UNCHANGED <<data, nsWritten, nsRead, updatedEvent, allowOverflow, wloc>>
    /\ UNCHANGED <<rloc, written, waited, notified>>
    /\ UNCHANGED history

\* thread t is inside a `with buffer:` block
InBlock(t) == pc[t] \notin {"idle", "enter"}

\* The writer's block is `with buffer: buffer.write(block, at)`, the reader's
\* is `with buffer: buffer.read(frm, to, advance)`.
With == \E t \in {"w", "r"} : with(t)

Enter == \E t \in {"w", "r"} : enter(t)

Exit == \E t \in {"w", "r"} : exit(t)

WCallLocked ==
    /\ pc["w"] = "with"
    /\ \E block \in FittingBlocks, at \in {None, Some(Cap)} :
            wCall(block, at)

RdCallLocked ==
    /\ pc["r"] = "with"
    /\ \E frm \in {None, Some(0), Some(1)}, advance \in BOOLEAN :
            rdCall(frm, None, advance)

NextLocked ==
    \/ With
    \/ Enter
    \/ WCallLocked
    \/ WriterRuns
    \/ RdCallLocked
    \/ ReaderRuns
    \/ Exit

Locked == Init /\ [][NextLocked]_vars

\* ================================================================== claims

\* C1: a write call that raises an error, the overflow error of the strict
\* policy included, leaves nsWritten, nsRead and every storage cell as they
\* were before the call.
WriteErrorHasNoEffect ==
    [][(last'.op = "write" /\ last'.err # "ok")
        => (nsWritten' = nsWritten /\ nsRead' = nsRead /\ data' = data)]_vars

\* C2: after every completed write call, returning or raising, under either
\* policy, nsWritten - nsRead is at most the capacity.
GapWithinCapAfterWrite ==
    last.op = "write" => nsWritten - nsRead <= Cap

\* C3: after every call of every operation, successful or not,
\* 0 <= nsRead <= nsWritten.
CursorsOrdered ==
    0 <= nsRead /\ nsRead <= nsWritten

\* C3 witness: a write-cursor rewind has pulled a non-zero read cursor down.
CursorsOrderedWitness ==
    /\ last.op = "setNsWritten"
    /\ last.err = "ok"
    /\ last.value > 0
    /\ nsRead = last.value
    /\ nsWritten = last.value

\* C4: under the strict policy a write raises the overflow error exactly when
\* it passed the range checks and at + length - nsRead exceeds the capacity;
\* under the auto-discard policy no write raises it, and a write that took the
\* gap beyond the capacity leaves nsRead = nsWritten - Cap.
OverflowExactlyPastCap ==
    [][last'.op = "write" =>
        LET advanced == writeError(last'.start, nsWritten, nsRead) = "ok"
            gap      == last'.stop - nsRead
        IN  IF allowOverflow
            THEN /\ last'.err # "BufferError"
                 /\ (advanced /\ gap > Cap) => nsRead' = nsWritten' - Cap
                 /\ (advanced /\ gap <= Cap) => nsRead' = nsRead
            ELSE last'.err = "BufferError" <=> (advanced /\ gap > Cap)]_vars

\* C4 witness: the strict policy raised at the first sample beyond the capacity.
OverflowExactlyPastCapWitness ==
    /\ ~allowOverflow
    /\ last.op = "write"
    /\ last.err = "BufferError"
    /\ nsWritten - nsRead = Cap + 1

\* C5: after a successful write of n <= Cap samples at `at`, a read of
\* [at, at + n) issued before any further write or write-cursor rewind
\* succeeds and returns exactly the block written, in logical order.
RoundTrip ==
    (/\ last.op = "read"
     /\ lastWrite # None
     /\ ~Val(lastWrite).raised
     /\ Len(Val(lastWrite).vals) <= Cap
     /\ last.start = Val(lastWrite).at
     /\ last.stop = Val(lastWrite).at + Len(Val(lastWrite).vals))
    => (last.err = "ok" /\ last.vals = Val(lastWrite).vals)

\* C5 witness: the block read back lies across the physical end of storage.
RoundTripWitness ==
    /\ last.op = "read"
    /\ last.err = "ok"
    /\ lastWrite # None
    /\ ~Val(lastWrite).raised
    /\ Len(Val(lastWrite).vals) = Cap
    /\ last.start = Val(lastWrite).at
    /\ last.stop = Val(lastWrite).at + Cap
    /\ last.start % Cap # 0
    /\ last.start > Cap

\* C6 as claimed: after an advancing read that ended at t and no rewind since,
\* the next read with default frm starts at t, under both policies.
ReadsContiguous ==
    (last.op = "read" /\ last.frm = None /\ last.prevEnd # None)
    => last.start = Val(last.prevEnd)

\* C6 amended: it starts at t unless a write in between overflowed under the
\* auto-discard policy; then it starts later than t (samples are skipped,
\* none is returned twice).
ReadsContiguousUnlessDiscarded ==
    (last.op = "read" /\ last.frm = None /\ last.prevEnd # None)
    => IF last.prevDiscarded
       THEN allowOverflow /\ last.start > Val(last.prevEnd)
       ELSE last.start = Val(last.prevEnd)

\* C6 witness: a default read continued where an earlier one had ended, with
\* a write in between.
ReadsContiguousWitness ==
    /\ last.op = "read"
    /\ last.err = "ok"
    /\ last.frm = None
    /\ last.prevEnd # None
    /\ ~last.prevDiscarded
    /\ last.start > 0
    /\ last.stop > last.start
    /\ lastWrite # None

\* C7 as claimed: no successful advancing read, whatever its frm and to,
\* lowers nsRead.
ReadNeverLowersCursor ==
    [][(last'.op = "read" /\ last'.err = "ok" /\ last'.advance)
        => nsRead' >= nsRead]_vars

\* C7 amended: a successful advancing read whose frm is the default, or is
\* not below the read cursor, does not lower nsRead; every successful
\* advancing read leaves nsRead = to.
ReadFromCursorNeverLowersIt ==
    [][(last'.op = "read" /\ last'.err = "ok" /\ last'.advance)
        => /\ nsRead' = last'.stop
           /\ (last'.frm = None \/ last'.start >= nsRead) => nsRead' >= nsRead]_vars

\* C7 witness: a default advancing read has moved the cursor forward.
ReadFromCursorWitness ==
    /\ last.op = "read"
    /\ last.err = "ok"
    /\ last.advance
    /\ last.frm = None
    /\ last.stop > last.start
    /\ nsRead = last.stop

\* C8: right after a successful advancing read returns, the update signal is
\* set (updated() would return true). Stated for the reads that moved the
\* read cursor while no overflow was outstanding.
ReadRaisesUpdateSignal ==
    [][(last'.op = "read" /\ last'.err = "ok" /\ last'.advance
            /\ nsWritten - nsRead <= Cap /\ nsRead' # nsRead)
        => updatedEvent']_vars

\* C9: a thread blocked in wait() while another thread's write call has stored
\* its block and advanced the write cursor eventually returns from wait(),
\* under either policy and whatever the gap after that write.
WaitReleasedByWrite ==
    (pc["r"] = "r_wait" /\ pc["w"] = "w_overflow") ~> (pc["r"] = "idle")

\* C10: a write with at < 0 and |at| <= nsWritten - nsRead succeeds, places the
\* block |at| samples before the write cursor and leaves
\* nsWritten = old nsWritten - |at| + length.
NegativeAtRewritesHistory ==
    [][(/\ last'.op = "write"
        /\ last'.at # None
        /\ Val(last'.at) < 0
        /\ 0 - Val(last'.at) <= nsWritten - nsRead)
        => (/\ last'.err = "ok"
            /\ nsWritten' = nsWritten + Val(last'.at)
                                + (last'.stop - last'.start))]_vars

\* C11: a read with to < 0 and 0 <= frm <= nsWritten - |to|, frm within the
\* last Cap samples, succeeds with the range [frm, nsWritten - |to|) and, when
\* advancing, leaves nsRead = nsWritten - |to|.
NegativeToIsRelative ==
    [][(/\ last'.op = "read"
        /\ last'.to # None
        /\ Val(last'.to) < 0
        /\ 0 <= last'.start
        /\ nsWritten - Cap <= last'.start
        /\ last'.start <= nsWritten + Val(last'.to))
        => (/\ last'.err = "ok"
            /\ last'.stop = nsWritten + Val(last'.to)
            /\ last'.advance => nsRead' = nsWritten + Val(last'.to))]_vars

\* C12: write accepts the resolved `at` exactly when nsRead <= at <= nsWritten;
\* above the write cursor it raises the skip-ahead error, below the read
\* cursor the write-before-last-read error, and a rejected call changes
\* neither the cursors, nor storage, nor the update signal.
WriteAcceptsBetweenCursors ==
    [][last'.op = "write" =>
        LET at == last'.start
        IN  /\ at > nsWritten => last'.err = "SkipWrite"
            /\ (0 <= at /\ at < nsRead) => last'.err = "WriteBeforeRead"
            /\ (0 <= at /\ nsRead <= at /\ at <= nsWritten)
                    => last'.err \in {"ok", "BufferError"}
            /\ last'.err \in IndexErrors
                    => UNCHANGED <<data, nsWritten, nsRead, updatedEvent>>]_vars

\* C12 witness: a write below a non-zero read cursor was refused, and a
\* write at the read cursor itself is what put the samples there.
WriteAcceptsBetweenCursorsWitness ==
    /\ last.op = "write"
    /\ last.err = "WriteBeforeRead"
    /\ last.start = nsRead - 1
    /\ lastWrite # None
    /\ Val(lastWrite).at > 0

\* C13: read raises IndexError, leaving cursors and storage alone, when
\* to < frm, when frm < nsWritten - Cap, or when to is beyond the write cursor;
\* with 0 <= frm, nsWritten - Cap <= frm <= to <= nsWritten it succeeds and
\* returns to - frm samples.
ReadAcceptsWithinWindow ==
    [][last'.op = "read" =>
        LET frm == last'.start
            to  == last'.stop
        IN  /\ (to < frm \/ frm < nsWritten - Cap \/ to > nsWritten)
                => /\ last'.err \in IndexErrors
                   /\ UNCHANGED <<data, nsWritten, nsRead>>
            /\ (0 <= frm /\ nsWritten - Cap <= frm /\ frm <= to
                    /\ to <= nsWritten)
                => /\ last'.err = "ok"
                   /\ Len(last'.vals) = to - frm]_vars

\* C13 witness: a read of the whole window, starting at nsWritten - Cap > 0.
ReadAcceptsWithinWindowWitness ==
    /\ last.op = "read"
    /\ last.err = "ok"
    /\ last.start = nsWritten - Cap
    /\ last.start > 0
    /\ Len(last.vals) = Cap

\* C14: nsWritten = v succeeds exactly when 0 <= v <= nsWritten; a refused
\* assignment changes nothing; on success the write cursor is v and the read
\* cursor is min(old nsRead, v).
WrittenRewindClampsRead ==
    [][last'.op = "setNsWritten" =>
        LET v == last'.value
        IN  IF 0 <= v /\ v <= nsWritten
            THEN /\ last'.err = "ok"
                 /\ nsWritten' = v
                 /\ nsRead' = IF nsRead < v THEN nsRead ELSE v
            ELSE /\ last'.err \in IndexErrors
                 /\ UNCHANGED <<data, nsWritten, nsRead, updatedEvent>>]_vars

\* C14 witness: the write cursor was rewound below where the last read ended.
WrittenRewindClampsReadWitness ==
    /\ last.op = "setNsWritten"
    /\ last.err = "ok"
    /\ last.prevEnd # None
    /\ Val(last.prevEnd) > last.value
    /\ nsRead = last.value
    /\ ~allowOverflow

\* C15: nsRead = v succeeds exactly when max(0, nsWritten - Cap) <= v <= nsRead;
\* below nsWritten - Cap and above the read cursor it raises IndexError and
\* leaves nsRead alone; v = nsWritten - Cap is accepted.
ReadRewindWithinWindow ==
    [][last'.op = "setNsRead" =>
        LET v == last'.value
        IN  IF 0 <= v /\ nsWritten - Cap <= v /\ v <= nsRead
            THEN last'.err = "ok" /\ nsRead' = v
            ELSE /\ last'.err \in IndexErrors
                 /\ (v > nsRead /\ v >= 0) => last'.err = "FastForward"
                 /\ UNCHANGED <<data, nsWritten, nsRead, updatedEvent>>]_vars

\* C15 witness: the read cursor was rewound to exactly nsWritten - Cap.
ReadRewindWithinWindowWitness ==
    /\ last.op = "setNsRead"
    /\ last.err = "ok"
    /\ last.value = nsWritten - Cap
    /\ last.value > 0
    /\ last.prevEnd # None
    /\ Val(last.prevEnd) > last.value
    /\ nsRead = last.value

\* C20: every index a successful read returns lies in
\* [max(0, nsWritten - Cap), nsWritten), and a read with frm < 0 is refused.
ReadReturnsOnlyWritten ==
    last.op = "read" =>
        /\ last.start < 0 => last.err # "ok"
        /\ last.err = "ok" =>
              \A i \in last.start..(last.stop - 1) :
                  /\ 0 <= i
                  /\ nsWritten - Cap <= i
                  /\ i < nsWritten

\* C19: wait() consumes the signal atomically, so no notification is lost: a
\* write that completes after a wait() call has returned leaves the update
\* signal set until a wait statement sees it, so the waiter's next wait()
\* returns without a further write.
NoNotificationLost == notified => updatedEvent

\* C18: without the lock, one writer calling write (default or explicit at)
\* and one reader calling read(advance=True): nsRead <= nsWritten in every
\* state in which no write call is in progress.
CursorsOrderedBetweenWrites == pc["w"] = "idle" => nsRead <= nsWritten

\* C16: the scoped lock gives mutual exclusion with guaranteed release: at
\* most one thread is inside a `with buffer:` block, the lock is held exactly
\* while its holder is inside one (so it is released when the block ends,
\* normally or by an exception of write/read), and a thread at the entry of a
\* block can enter whenever no thread is inside one.
LockExcludesAndReleases ==
    /\ ~(InBlock("w") /\ InBlock("r"))
    /\ \A t \in {"w", "r"} : InBlock(t) <=> lock = Some(t)
    /\ \A t \in {"w", "r"} :
            (pc[t] = "enter" /\ ~InBlock("w") /\ ~InBlock("r"))
                => ENABLED enter(t)

\* the writer leaves its block by an exception while the reader waits to enter
LockExcludesAndReleasesWitness ==
    /\ pc["w"] = "unwind"
    /\ lock = Some("w")
    /\ pc["r"] = "enter"

\* C17: when every read and every write is made holding the lock, each
\* successful read(frm, to) returns, for every logical index i in [frm, to),
\* the sample most recently written at index i. Stated for the lenient
\* overflow policy, under which no write raises the overflow error.
LockedReadReturnsLatest ==
    (/\ pc["r"] = "r_return"
     /\ lock = Some("r")
     /\ rloc.err = "ok"
     /\ allowOverflow)
        => \A j \in 1..Len(rloc.vals) :
                rloc.vals[j] = written[Val(rloc.frm) + j - 1]
====
